---- MODULE Spec2Model ----
(***************************************************************************)
(* Model of the brute-force first-fit bitmap allocators:                   *)
(*   lib      - the standalone byte-flag allocator   (src/src/lib.rs)      *)
(*   byte     - the Byte-Flag BitAllocator impl      (src/src/bytealloc.rs)*)
(*   packed   - the Packed-Bit BitAllocator impl     (src/src/bitalloc.rs) *)
(* The three allocators are created with the same size and driven by the   *)
(* same sequence of calls.  A panic (failed assert!, index out of bounds,  *)
(* arithmetic overflow in a build with overflow checks) ends the run: the  *)
(* call's outcome is recorded as "abort" and no further call is made.      *)
(*                                                                         *)
(* The word width, the word count and the width of usize are scaled down   *)
(* (64, 24 and 64 in the source); all arithmetic is written in terms of    *)
(* them.                                                                   *)
(***************************************************************************)
EXTENDS Integers, Sequences, FiniteSets

\* bits per word of the packed bitmap (bitalloc.rs:6, scaled)
ELEM_WIDTH == 2
\* words of the packed bitmap (bitalloc.rs:7, scaled)
ELEM_CNT == 2
\* width of usize in bits (scaled)
USIZE_BITS == 8
\* alignments offered to alloc_aligned are 0, 3 and 2^0 .. 2^MaxAlignLog
MaxAlignLog == 3

\* flags of the byte encodings; MAX_LEN = 0x600000/4096 = ELEM_CNT*ELEM_WIDTH
MAX_LEN == ELEM_CNT * ELEM_WIDTH

RECURSIVE Pow2(_)
Pow2(k) == IF k = 0 THEN 1 ELSE 2 * Pow2(k - 1)

USIZE_MOD == Pow2(USIZE_BITS)

\* x & y on non-negative integers
RECURSIVE BitAnd(_, _)
BitAnd(x, y) ==
  IF x = 0 \/ y = 0 THEN 0
  ELSE (x % 2) * (y % 2) + 2 * BitAnd(x \div 2, y \div 2)

\* x & !y on usize
AndNot(x, y) == x - BitAnd(x, y)

\* the assert on the alignment: align >= 1 && align & (align-1) == 0
is_pow2(align) == align >= 1 /\ BitAnd(align, align - 1) = 0

Some(b)  == [kind |-> "some",  val |-> b]
None     == [kind |-> "none",  val |-> 0]
Abort    == [kind |-> "abort", val |-> 0]
Unit     == [kind |-> "unit",  val |-> 0]

(***************************************************************************)
(* Byte-flag arrays (lib.rs, bytealloc.rs): [bool; MAX_LEN].               *)
(***************************************************************************)
byte_new_bitmap == [i \in 0 .. MAX_LEN - 1 |-> FALSE]

\* while begin < self.size && bm[begin] { begin += 1; }
RECURSIVE skip_allocated(_, _, _)
skip_allocated(bm, size, begin) ==
  IF begin < size /\ bm[begin] THEN skip_allocated(bm, size, begin + 1)
  ELSE begin

\* scan_free with the run scanned to the end of the array instead of size
RECURSIVE scan_free_past_size(_, _, _)
scan_free_past_size(bm, size, end) ==
  IF end < MAX_LEN /\ ~bm[end] THEN scan_free_past_size(bm, size, end + 1)
  ELSE end

\* while end < self.size && !bm[end] { end += 1; }
RECURSIVE scan_free(_, _, _)
scan_free(bm, size, end) ==
  IF end < size /\ ~bm[end] THEN scan_free(bm, size, end + 1)
  ELSE end

\* mark_range with one index too many marked
mark_range_one_more(bm, begin, n) ==
  [i \in 0 .. MAX_LEN - 1 |-> IF begin <= i /\ i <= begin + n THEN TRUE ELSE bm[i]]

\* for i in begin..begin+n { bm[i] = true; }
mark_range(bm, begin, n) ==
  [i \in 0 .. MAX_LEN - 1 |-> IF begin <= i /\ i < begin + n THEN TRUE ELSE bm[i]]

\* for i in 0..self.size { if !bm[i] { bm[i] = true; return Some(i); } } None
RECURSIVE byte_alloc_1_from(_, _, _)
byte_alloc_1_from(bm, size, i) ==
  IF ~(i < size) THEN [ret |-> None, bm |-> bm]
  ELSE IF ~bm[i] THEN [ret |-> Some(i), bm |-> [bm EXCEPT ![i] = TRUE]]
  ELSE byte_alloc_1_from(bm, size, i + 1)

byte_alloc_1(bm, size) == byte_alloc_1_from(bm, size, 0)

\* the loop of alloc with a run marked before its length is checked
RECURSIVE byte_alloc_loop_marks_early(_, _, _, _)
byte_alloc_loop_marks_early(bm, size, n, begin0) ==
  IF ~(begin0 < size) THEN [ret |-> None, bm |-> bm]
  ELSE LET begin == skip_allocated(bm, size, begin0) IN
       IF begin >= size THEN [ret |-> None, bm |-> bm]
       ELSE LET end == scan_free(bm, size, begin + 1) IN
            IF end - begin >= n
            THEN [ret |-> Some(begin), bm |-> mark_range(bm, begin, n)]
            ELSE byte_alloc_loop_marks_early(mark_range(bm, begin, end - begin),
                                             size, n, end)

\* the general-case loop of alloc: while begin < self.size { ... } None
RECURSIVE byte_alloc_loop(_, _, _, _)
byte_alloc_loop(bm, size, n, begin0) ==
  IF ~(begin0 < size) THEN [ret |-> None, bm |-> bm]
  ELSE LET begin == skip_allocated(bm, size, begin0) IN
       IF begin >= size THEN [ret |-> None, bm |-> bm]
       ELSE LET end == scan_free(bm, size, begin + 1) IN
            IF end - begin >= n
            THEN [ret |-> Some(begin), bm |-> mark_range(bm, begin, n)]
            ELSE byte_alloc_loop(bm, size, n, end)

\* bytealloc.rs alloc
byte_alloc(bm, size, n) ==
  IF ~(0 < n /\ n <= size) THEN [ret |-> Abort, bm |-> bm]
  ELSE IF n = 1 THEN byte_alloc_1(bm, size)
  ELSE byte_alloc_loop(bm, size, n, 0)

\* lib.rs alloc (the same code as bytealloc.rs)
lib_alloc(bm, size, n) ==
  IF ~(0 < n /\ n <= size) THEN [ret |-> Abort, bm |-> bm]
  ELSE IF n = 1 THEN byte_alloc_1(bm, size)
  ELSE byte_alloc_loop(bm, size, n, 0)

\* byte_round_up with the rounding left out
byte_round_up_skipped(begin, align) == begin

\* bytealloc.rs: begin = (begin + align - 1) & !align_mask
byte_round_up(begin, align) == AndNot(begin + align - 1, align - 1)

\* the loop of bytealloc.rs alloc_aligned
RECURSIVE byte_alloc_aligned_loop(_, _, _, _, _)
byte_alloc_aligned_loop(bm, size, n, align, begin0) ==
  IF ~(begin0 < size) THEN [ret |-> None, bm |-> bm]
  ELSE LET begin == byte_round_up(skip_allocated(bm, size, begin0), align) IN
       IF begin >= size THEN [ret |-> None, bm |-> bm]
       ELSE IF bm[begin] THEN byte_alloc_aligned_loop(bm, size, n, align, begin)
       ELSE LET end == scan_free(bm, size, begin + 1) IN
            IF end - begin >= n
            THEN [ret |-> Some(begin), bm |-> mark_range(bm, begin, n)]
            ELSE byte_alloc_aligned_loop(bm, size, n, align, end)

\* bytealloc.rs alloc_aligned
byte_alloc_aligned(bm, size, n, align) ==
  IF ~(0 < n /\ n <= size) THEN [ret |-> Abort, bm |-> bm]
  ELSE IF ~is_pow2(align) THEN [ret |-> Abort, bm |-> bm]
  ELSE byte_alloc_aligned_loop(bm, size, n, align, 0)

\* lib.rs: begin = ((begin-1) & !align_mask) + align.  With begin = 0 the
\* subtraction underflows: a panic with overflow checks, a wrap without
\* (and then the addition wraps as well).  ok = FALSE is the panic.
lib_round_up(begin, align, overflow_checks) ==
  LET sub == (begin - 1 + USIZE_MOD) % USIZE_MOD
      sum == AndNot(sub, align - 1) + align
  IN IF overflow_checks /\ (begin - 1 < 0 \/ sum >= USIZE_MOD)
     THEN [ok |-> FALSE, val |-> 0]
     ELSE [ok |-> TRUE, val |-> sum % USIZE_MOD]

\* the loop of lib.rs alloc_aligned
RECURSIVE lib_alloc_aligned_loop(_, _, _, _, _, _)
lib_alloc_aligned_loop(bm, size, n, align, chk, begin0) ==
  IF ~(begin0 < size) THEN [ret |-> None, bm |-> bm]
  ELSE LET up == lib_round_up(skip_allocated(bm, size, begin0), align, chk)
           begin == up.val
       IN
       IF ~up.ok THEN [ret |-> Abort, bm |-> bm]
       ELSE IF begin >= size THEN [ret |-> None, bm |-> bm]
       ELSE IF bm[begin] THEN lib_alloc_aligned_loop(bm, size, n, align, chk, begin)
       ELSE LET end == scan_free(bm, size, begin + 1) IN
            IF end - begin >= n
            THEN [ret |-> Some(begin), bm |-> mark_range(bm, begin, n)]
            ELSE lib_alloc_aligned_loop(bm, size, n, align, chk, end)

\* lib.rs alloc_aligned
lib_alloc_aligned(bm, size, n, align, chk) ==
  IF ~(0 < n /\ n <= size) THEN [ret |-> Abort, bm |-> bm]
  ELSE IF ~is_pow2(align) THEN [ret |-> Abort, bm |-> bm]
  ELSE lib_alloc_aligned_loop(bm, size, n, align, chk, 0)

\* bytealloc.rs dealloc: for i in begin..begin+n { bm[i] = false; }
\* bm[i] with i >= MAX_LEN is an index-out-of-bounds panic.
RECURSIVE byte_dealloc_from(_, _, _)
byte_dealloc_from(bm, i, stop) ==
  IF ~(i < stop) THEN [ret |-> Unit, bm |-> bm]
  ELSE IF i >= MAX_LEN THEN [ret |-> Abort, bm |-> bm]
  ELSE byte_dealloc_from([bm EXCEPT ![i] = FALSE], i + 1, stop)

\* byte_dealloc with the first index of the range left allocated
byte_dealloc_late_start(bm, begin, n) ==
  IF n = 0 THEN [ret |-> Unit, bm |-> bm]
  ELSE byte_dealloc_from(bm, begin + 1, begin + n)

byte_dealloc(bm, begin, n) == byte_dealloc_from(bm, begin, begin + n)

\* lib.rs dealloc: for i in begin..begin+n { assert!(bm[i]); bm[i] = false; }
RECURSIVE lib_dealloc_from(_, _, _)
lib_dealloc_from(bm, i, stop) ==
  IF ~(i < stop) THEN [ret |-> Unit, bm |-> bm]
  ELSE IF i >= MAX_LEN THEN [ret |-> Abort, bm |-> bm]
  ELSE IF ~bm[i] THEN [ret |-> Abort, bm |-> bm]
  ELSE lib_dealloc_from([bm EXCEPT ![i] = FALSE], i + 1, stop)

lib_dealloc(bm, begin, n) == lib_dealloc_from(bm, begin, begin + n)

(***************************************************************************)
(* Packed encoding (bitalloc.rs): [i64; ELEM_CNT], a word is modelled by   *)
(* the number its ELEM_WIDTH bits spell; a cursor RawIndex(word, bit) is   *)
(* the pair <<word, bit>>.                                                 *)
(***************************************************************************)
packed_new_bitmap == [w \in 0 .. ELEM_CNT - 1 |-> 0]

RawIndex(a, b) == <<a, b>>
RawIndex_new == RawIndex(0, 0)
to_int(i) == i[1] * ELEM_WIDTH + i[2]
from_int(x) == RawIndex(x \div ELEM_WIDTH, x % ELEM_WIDTH)

\* derived PartialOrd of the tuple struct: lexicographic on (word, bit)
idx_lt(i, j) == i[1] < j[1] \/ (i[1] = j[1] /\ i[2] < j[2])

\* the addition with the carry into the word index left out
idx_add_no_carry(i, rhs) == RawIndex(i[1], (i[2] + rhs) % ELEM_WIDTH)

\* impl Add<usize> / AddAssign<usize> for RawIndex
idx_add(i, rhs) ==
  LET b == i[2] + rhs IN RawIndex(i[1] + (b \div ELEM_WIDTH), b % ELEM_WIDTH)

\* impl AddAssign<usize> for RawIndex, field by field:
\* self.1 += rhs; self.0 += self.1 / ELEM_WIDTH; self.1 %= ELEM_WIDTH
idx_add_assign(i, rhs) ==
  LET bit1 == i[2] + rhs
      word1 == i[1] + (bit1 \div ELEM_WIDTH)
  IN RawIndex(word1, bit1 % ELEM_WIDTH)

\* impl Sub for RawIndex
idx_sub(i, j) == to_int(i) - to_int(j)

\* RawIndex::next_aligned
next_aligned(i, alignment) ==
  from_int(AndNot(to_int(i) + alignment - 1, alignment - 1))

\* RawBitMap::get / set reach the word only if both asserts pass and the
\* word index is inside the array
raw_access_ok(i) == i[1] <= ELEM_CNT /\ i[2] < ELEM_WIDTH /\ i[1] < ELEM_CNT

\* RawBitMap::get: (self.0[i.0] >> i.1) & 1 == 1
raw_get(bm, i) == (bm[i[1]] \div Pow2(i[2])) % 2 = 1

\* RawBitMap::set: clear the bit, then or in (b << i.1)
raw_set(bm, i, b) ==
  LET w == bm[i[1]]
      cleared == AndNot(w, Pow2(i[2]))
      bit == (IF b THEN 1 ELSE 0) * Pow2(i[2])
  IN [bm EXCEPT ![i[1]] = cleared + bit - BitAnd(cleared, bit)]

\* RawBitMap::set_range; ok = FALSE when a set panics (the bits set before
\* it stay set)
RECURSIVE raw_set_range(_, _, _, _)
raw_set_range(bm, i, end, b) ==
  IF ~idx_lt(i, end) THEN [ok |-> TRUE, bm |-> bm]
  ELSE IF ~raw_access_ok(i) THEN [ok |-> FALSE, bm |-> bm]
  ELSE raw_set_range(raw_set(bm, i, b), idx_add(i, 1), end, b)

\* packed alloc_1 with the scan stopped one position before end
RECURSIVE packed_alloc_1_short_scan(_, _, _)
packed_alloc_1_short_scan(bm, end, i) ==
  IF ~idx_lt(idx_add(i, 1), end) THEN [ret |-> None, bm |-> bm]
  ELSE IF ~raw_access_ok(i) THEN [ret |-> Abort, bm |-> bm]
  ELSE IF ~raw_get(bm, i) THEN [ret |-> Some(to_int(i)), bm |-> raw_set(bm, i, TRUE)]
  ELSE packed_alloc_1_short_scan(bm, end, idx_add(i, 1))

\* LinearBitMap::alloc_1 (packed)
RECURSIVE packed_alloc_1_from(_, _, _)
packed_alloc_1_from(bm, end, i) ==
  IF ~idx_lt(i, end) THEN [ret |-> None, bm |-> bm]
  ELSE IF ~raw_access_ok(i) THEN [ret |-> Abort, bm |-> bm]
  ELSE IF ~raw_get(bm, i) THEN [ret |-> Some(to_int(i)), bm |-> raw_set(bm, i, TRUE)]
  ELSE packed_alloc_1_from(bm, end, idx_add(i, 1))

packed_alloc_1(bm, end) == packed_alloc_1_from(bm, end, RawIndex_new)

\* the loop of next_toggle without the test i < self.end
RECURSIVE next_toggle_from_no_end(_, _, _, _)
next_toggle_from_no_end(bm, end, b, i) ==
  IF ~raw_access_ok(i) THEN [ok |-> FALSE, idx |-> i]
  ELSE IF raw_get(bm, i) = b THEN next_toggle_from_no_end(bm, end, b, idx_add(i, 1))
  ELSE [ok |-> TRUE, idx |-> i]

\* the loop of next_toggle: while i < self.end && self.bitmap.get(&i) == b
RECURSIVE next_toggle_from(_, _, _, _)
next_toggle_from(bm, end, b, i) ==
  IF ~idx_lt(i, end) THEN [ok |-> TRUE, idx |-> i]
  ELSE IF ~raw_access_ok(i) THEN [ok |-> FALSE, idx |-> i]
  ELSE IF raw_get(bm, i) = b THEN next_toggle_from(bm, end, b, idx_add(i, 1))
  ELSE [ok |-> TRUE, idx |-> i]

\* LinearBitMap::next_toggle; it reads the bit at begin before the loop
next_toggle(bm, end, begin) ==
  IF ~raw_access_ok(begin) THEN [ok |-> FALSE, idx |-> begin]
  ELSE next_toggle_from(bm, end, raw_get(bm, begin), begin)

\* the cursors next_toggle passes to RawBitMap::get: begin, then every i
\* of the loop with i < self.end
RECURSIVE next_toggle_reads_from(_, _, _, _)
next_toggle_reads_from(bm, end, b, i) ==
  IF ~idx_lt(i, end) THEN {}
  ELSE IF ~raw_access_ok(i) THEN {i}
  ELSE IF raw_get(bm, i) = b
       THEN {i} \cup next_toggle_reads_from(bm, end, b, idx_add(i, 1))
       ELSE {i}

next_toggle_reads(bm, end, begin) ==
  {begin} \cup (IF raw_access_ok(begin)
                THEN next_toggle_reads_from(bm, end, raw_get(bm, begin), begin)
                ELSE {})

\* LinearBitMap::first_of
first_of(bm, end, b) ==
  IF raw_get(bm, RawIndex_new) = b THEN [ok |-> TRUE, idx |-> RawIndex_new]
  ELSE next_toggle(bm, end, RawIndex_new)

\* the loop of alloc (packed) with a run of exactly n indices rejected
RECURSIVE packed_alloc_loop_exact_rejected(_, _, _, _)
packed_alloc_loop_exact_rejected(bm, self_end, n, begin) ==
  IF begin = self_end THEN [ret |-> None, bm |-> bm]
  ELSE LET e == next_toggle(bm, self_end, begin) IN
       IF ~e.ok THEN [ret |-> Abort, bm |-> bm]
       ELSE IF idx_sub(e.idx, begin) > n
       THEN LET r == raw_set_range(bm, begin, idx_add(begin, n), TRUE) IN
            [ret |-> IF r.ok THEN Some(to_int(begin)) ELSE Abort, bm |-> r.bm]
       ELSE LET nb == next_toggle(bm, self_end, e.idx) IN
            IF ~nb.ok THEN [ret |-> Abort, bm |-> bm]
            ELSE packed_alloc_loop_exact_rejected(bm, self_end, n, nb.idx)

\* the loop of alloc (packed)
RECURSIVE packed_alloc_loop(_, _, _, _)
packed_alloc_loop(bm, self_end, n, begin) ==
  IF begin = self_end THEN [ret |-> None, bm |-> bm]
  ELSE LET e == next_toggle(bm, self_end, begin) IN
       IF ~e.ok THEN [ret |-> Abort, bm |-> bm]
       ELSE IF idx_sub(e.idx, begin) >= n
       THEN LET r == raw_set_range(bm, begin, idx_add(begin, n), TRUE) IN
            [ret |-> IF r.ok THEN Some(to_int(begin)) ELSE Abort, bm |-> r.bm]
       ELSE LET nb == next_toggle(bm, self_end, e.idx) IN
            IF ~nb.ok THEN [ret |-> Abort, bm |-> bm]
            ELSE packed_alloc_loop(bm, self_end, n, nb.idx)

\* bitalloc.rs alloc; the assert is n <= self.size * ELEM_WIDTH
packed_alloc(bm, size, self_end, n) ==
  IF ~(0 < n /\ n <= size * ELEM_WIDTH) THEN [ret |-> Abort, bm |-> bm]
  ELSE IF n = 1 THEN packed_alloc_1(bm, self_end)
  ELSE LET f == first_of(bm, self_end, FALSE) IN
       IF ~f.ok THEN [ret |-> Abort, bm |-> bm]
       ELSE packed_alloc_loop(bm, self_end, n, f.idx)

\* the loop of alloc_aligned (packed)
RECURSIVE packed_alloc_aligned_loop(_, _, _, _, _)
packed_alloc_aligned_loop(bm, self_end, n, alignment, begin0) ==
  IF begin0 = self_end THEN [ret |-> None, bm |-> bm]
  ELSE LET e == next_toggle(bm, self_end, begin0)
           begin == next_aligned(begin0, alignment)
       IN
       IF ~e.ok THEN [ret |-> Abort, bm |-> bm]
       ELSE IF idx_lt(begin, e.idx) /\ idx_sub(e.idx, begin) >= n
       THEN LET r == raw_set_range(bm, begin, idx_add(begin, n), TRUE) IN
            [ret |-> IF r.ok THEN Some(to_int(begin)) ELSE Abort, bm |-> r.bm]
       ELSE LET nb == next_toggle(bm, self_end, e.idx) IN
            IF ~nb.ok THEN [ret |-> Abort, bm |-> bm]
            ELSE packed_alloc_aligned_loop(bm, self_end, n, alignment, nb.idx)

\* bitalloc.rs alloc_aligned
packed_alloc_aligned(bm, size, self_end, n, alignment) ==
  IF ~(0 < n /\ n <= size) THEN [ret |-> Abort, bm |-> bm]
  ELSE IF ~is_pow2(alignment) THEN [ret |-> Abort, bm |-> bm]
  ELSE LET f == first_of(bm, self_end, FALSE) IN
       IF ~f.ok THEN [ret |-> Abort, bm |-> bm]
       ELSE packed_alloc_aligned_loop(bm, self_end, n, alignment, f.idx)

\* packed dealloc with the last index of the range left allocated
packed_dealloc_short(bm, begin, n) ==
  LET stop == IF n = 0 THEN begin ELSE begin + n - 1
      r == raw_set_range(bm, from_int(begin), from_int(stop), FALSE)
  IN [ret |-> IF r.ok THEN Unit ELSE Abort, bm |-> r.bm]

\* bitalloc.rs dealloc
packed_dealloc(bm, begin, n) ==
  LET r == raw_set_range(bm, from_int(begin), from_int(begin + n), FALSE) IN
  [ret |-> IF r.ok THEN Unit ELSE Abort, bm |-> r.bm]

\* occupancy of index i as the packed encoding stores it
packed_occ(bm, i) == raw_get(bm, from_int(i))

(***************************************************************************)
(* State.  A call takes the allocators from "ready" to "returned" (or, on  *)
(* a panic, to "aborted") and records its arguments, its outcomes and the  *)
(* bitmaps it started from; the caller then either takes the result        *)
(* (Return, back to "ready") or frees at once what it was just given.      *)
(***************************************************************************)
VARIABLES
  pc,               \* "start" before new(size); "ready"; "returned"; "aborted"
  overflow_checks,  \* the build panics on arithmetic overflow (debug) or wraps (release)
  size,             \* LinearBitMap.size, the same in the three allocators
  lib_bitmap,       \* lib.rs      LinearBitMap.bitmap
  byte_bitmap,      \* bytealloc.rs LinearBitMap.bitmap
  packed_bitmap,    \* bitalloc.rs LinearBitMap.bitmap
  packed_end,       \* bitalloc.rs LinearBitMap.end
  op,               \* the call just made: name and arguments
  ret,              \* its outcome in each allocator: [lib, byte, packed]
  pre,              \* the three bitmaps before that call
  undo,             \* when the call is the dealloc(begin, n) that directly
                    \* follows an allocation returning Some(begin) of n indices:
                    \* the three bitmaps before that allocation; else NoUndo
  ones              \* number of alloc(1) calls made if nothing else was called
                    \* since new(size), else -1

vars == <<pc, overflow_checks, size, lib_bitmap, byte_bitmap, packed_bitmap,
          packed_end, op, ret, pre, undo, ones>>

NoOp == [name |-> "none", n |-> 0, align |-> 0, begin |-> 0]
NoRet == [lib |-> Unit, byte |-> Unit, packed |-> Unit]
NoPre == [lib |-> byte_new_bitmap, byte |-> byte_new_bitmap,
          packed |-> packed_new_bitmap]
NoUndo == [valid |-> FALSE, lib |-> byte_new_bitmap, byte |-> byte_new_bitmap,
           packed |-> packed_new_bitmap]
Bitmaps == [lib |-> lib_bitmap, byte |-> byte_bitmap, packed |-> packed_bitmap]

\* sizes offered to new(size): 0, every size up to the capacity, and one beyond
Sizes == 0 .. MAX_LEN + 1
\* lengths offered to alloc and alloc_aligned: 0, the valid ones, one too many,
\* and the largest the packed assert lets through and one more
Lengths == (0 .. size + 1) \cup {size * ELEM_WIDTH, size * ELEM_WIDTH + 1}
\* alignments offered to alloc_aligned
Aligns == {0, 3} \cup {Pow2(k) : k \in 0 .. MaxAlignLog}

Init ==
  /\ pc = "start"
  /\ overflow_checks \in BOOLEAN
  /\ size = 0
  /\ lib_bitmap = byte_new_bitmap
  /\ byte_bitmap = byte_new_bitmap
  /\ packed_bitmap = packed_new_bitmap
  /\ packed_end = RawIndex_new
  /\ op = NoOp
  /\ ret = NoRet
  /\ pre = NoPre
  /\ undo = NoUndo
  /\ ones = -1

\* new(size) of the three allocators: assert!(size <= MAX_LEN) resp.
\* assert!(size <= ELEM_CNT * ELEM_WIDTH), all flags false
New(sz) ==
  /\ pc = "start"
  /\ op' = [NoOp EXCEPT !.name = "new", !.n = sz]
  /\ IF sz <= MAX_LEN /\ sz <= ELEM_CNT * ELEM_WIDTH
     THEN /\ pc' = "returned"
          /\ size' = sz
          /\ packed_end' = RawIndex(sz \div ELEM_WIDTH, sz % ELEM_WIDTH)
          /\ ret' = NoRet
          /\ ones' = 0
     ELSE /\ pc' = "aborted"
          /\ ret' = [lib |-> Abort, byte |-> Abort, packed |-> Abort]
          /\ UNCHANGED <<size, packed_end, ones>>
  /\ lib_bitmap' = byte_new_bitmap
  /\ byte_bitmap' = byte_new_bitmap
  /\ packed_bitmap' = packed_new_bitmap
  /\ pre' = Bitmaps
  /\ undo' = NoUndo
  /\ UNCHANGED overflow_checks

\* the common tail of a call: store the three outcomes
Finish(call, l, b, p, u, cnt) ==
  /\ op' = call
  /\ ret' = [lib |-> l.ret, byte |-> b.ret, packed |-> p.ret]
  /\ lib_bitmap' = l.bm
  /\ byte_bitmap' = b.bm
  /\ packed_bitmap' = p.bm
  /\ pre' = Bitmaps
  /\ undo' = u
  /\ ones' = cnt
  /\ pc' = IF Abort \in {l.ret, b.ret, p.ret} THEN "aborted" ELSE "returned"
  /\ UNCHANGED <<overflow_checks, size, packed_end>>

\* alloc(n) on the three allocators
Alloc(n) ==
  /\ pc = "ready"
  /\ Finish([NoOp EXCEPT !.name = "alloc", !.n = n],
            lib_alloc(lib_bitmap, size, n),
            byte_alloc(byte_bitmap, size, n),
            packed_alloc(packed_bitmap, size, packed_end, n),
            NoUndo,
            IF n = 1 /\ ones >= 0 /\ ones <= size THEN ones + 1 ELSE -1)

\* alloc_aligned(n, align) on the three allocators
AllocAligned(n, align) ==
  /\ pc = "ready"
  /\ Finish([NoOp EXCEPT !.name = "alloc_aligned", !.n = n, !.align = align],
            lib_alloc_aligned(lib_bitmap, size, n, align, overflow_checks),
            byte_alloc_aligned(byte_bitmap, size, n, align),
            packed_alloc_aligned(packed_bitmap, size, packed_end, n, align),
            NoUndo, -1)

\* the call just made was an allocation that returned Some(begin) for n
\* indices in the three allocators
JustAllocated(begin, n) ==
  /\ pc = "returned"
  /\ op.name \in {"alloc", "alloc_aligned"}
  /\ op.n = n
  /\ ret.lib = Some(begin) /\ ret.byte = Some(begin) /\ ret.packed = Some(begin)

\* dealloc(begin, n) on the three allocators, as the next call or directly
\* on the range an allocation has just returned
Dealloc(begin, n) ==
  /\ pc = "ready" \/ JustAllocated(begin, n)
  /\ Finish([NoOp EXCEPT !.name = "dealloc", !.n = n, !.begin = begin],
            lib_dealloc(lib_bitmap, begin, n),
            byte_dealloc(byte_bitmap, begin, n),
            packed_dealloc(packed_bitmap, begin, n),
            IF JustAllocated(begin, n)
            THEN [valid |-> TRUE, lib |-> pre.lib, byte |-> pre.byte,
                  packed |-> pre.packed]
            ELSE NoUndo,
            -1)

\* the caller takes the outcome of the call; the record of the call is dropped
Return ==
  /\ pc = "returned"
  /\ pc' = "ready"
  /\ op' = NoOp
  /\ ret' = NoRet
  /\ pre' = NoPre
  /\ undo' = NoUndo
  /\ UNCHANGED <<overflow_checks, size, lib_bitmap, byte_bitmap, packed_bitmap,
                 packed_end, ones>>

Next ==
  \/ \E sz \in Sizes : New(sz)
  \/ \E n \in Lengths : Alloc(n)
  \/ \E n \in 0 .. size + 1 : \E align \in Aligns : AllocAligned(n, align)
  \/ \E begin \in 0 .. size : \E n \in 0 .. MAX_LEN + 1 - begin : Dealloc(begin, n)
  \/ Return

Spec == Init /\ [][Next]_vars

(***************************************************************************)
(* Vocabulary of the properties.                                           *)
(***************************************************************************)
Variants == {"lib", "byte", "packed"}
Traits == {"byte", "packed"}
IsAllocCall == op.name \in {"alloc", "alloc_aligned"}
ValidLength == 0 < op.n /\ op.n <= size
PowersOfTwo == {Pow2(k) : k \in 0 .. USIZE_BITS - 1}
\* the alignment the call asked for (alloc asks for none, that is 1)
CallAlign == IF op.name = "alloc_aligned" THEN op.align ELSE 1

\* occupancy of index i in the bitmaps bms of variant v
Occ(bms, v, i) == IF v = "packed" THEN packed_occ(bms.packed, i) ELSE bms[v][i]
\* the free indices of [0, size)
Free(bms, v) == {i \in 0 .. size - 1 : ~Occ(bms, v, i)}
\* n free indices start at b and end inside [0, size)
Fits(free, b, n) == b + n <= size /\ \A i \in b .. b + n - 1 : i \in free
\* the multiples of align at which n free indices start
Candidates(free, n, align) ==
  {b \in 0 .. size - 1 : b % align = 0 /\ Fits(free, b, n)}
\* r is the first-fit answer: the smallest candidate, or None if there is none
IsFirstFit(r, free, n, align) ==
  /\ r.kind = "some" =>
       /\ r.val \in Candidates(free, n, align)
       /\ \A b \in Candidates(free, n, align) : r.val <= b
  /\ r.kind = "none" => Candidates(free, n, align) = {}
\* the range [b, b+n) crosses a word boundary of the packed encoding
CrossesWord(b, n) == n >= 2 /\ b \div ELEM_WIDTH # (b + n - 1) \div ELEM_WIDTH

\* C1: alloc(n) with 0 < n <= size returns the smallest b whose n indices
\* were all free before the call and end inside [0, size), and returns None
\* only if there is no such b (lib, byte and packed).
C1_FirstFit ==
  (op.name = "alloc" /\ ValidLength) =>
    \A v \in Variants : IsFirstFit(ret[v], Free(pre, v), op.n, 1)

\* C1 witness: an alloc of several indices skipped a free run that was too
\* short and returned a later one, in the three variants.
C1_Witness ==
  /\ op.name = "alloc" /\ op.n >= 2
  /\ \A v \in Variants :
       /\ ret[v].kind = "some" /\ ret[v].val >= 2
       /\ \E i \in 0 .. ret[v].val - 2 : i \in Free(pre, v)

\* C2: alloc_aligned(n, align) with 0 < n <= size and align a power of two
\* returns the smallest multiple of align whose n indices were all free
\* before the call and end inside [0, size), and None only if there is none.
C2_AlignedFirstFit ==
  (op.name = "alloc_aligned" /\ ValidLength /\ op.align \in PowersOfTwo) =>
    \A v \in Variants : IsFirstFit(ret[v], Free(pre, v), op.n, op.align)

\* C2 witness: the free run starts at an unaligned index and the allocation
\* is placed at an aligned index inside that run.
C2_Witness ==
  /\ op.name = "alloc_aligned" /\ op.align >= 2
  /\ \A v \in Variants :
       /\ ret[v].kind = "some" /\ ret[v].val >= 2
       /\ ret[v].val - 1 \in Free(pre, v)
       /\ ret[v].val - 2 \notin Free(pre, v)

\* C3 (as stated): every call has the same outcome in the packed and the
\* byte allocator and leaves the same occupancy of [0, size) in both.
C3_EncodingsAgree ==
  /\ ret.byte = ret.packed
  /\ \A i \in 0 .. size - 1 : Occ(Bitmaps, "byte", i) = Occ(Bitmaps, "packed", i)

\* C4: a successful allocation returns begin with begin + n <= size, and no
\* slot at an index >= size is ever marked allocated (flags of the byte
\* arrays, bits of the packed words, the partially used last word included).
C4_Bounds ==
  /\ IsAllocCall =>
       \A v \in Variants : ret[v].kind = "some" => ret[v].val + op.n <= size
  /\ \A v \in Variants : \A i \in size .. MAX_LEN - 1 : ~Occ(Bitmaps, v, i)

\* C4 witness: an allocation that ends exactly at size, where size lies in
\* the middle of a word and below the capacity.
C4_Witness ==
  /\ IsAllocCall /\ size % ELEM_WIDTH # 0 /\ size > ELEM_WIDTH
  /\ \A v \in Variants : ret[v].kind = "some" /\ ret[v].val + op.n = size

\* C5 (as stated): alloc and alloc_aligned with valid arguments on an
\* allocator of a valid size never abort in either encoding.
C5_ExhaustionNotFatal ==
  (IsAllocCall /\ ValidLength /\ CallAlign \in PowersOfTwo) =>
    \A v \in Traits : ret[v].kind # "abort"

\* C6: on a fresh allocator of a valid size the k-th alloc(1) returns
\* Some(k-1) for k = 1 .. size and the (size+1)-th returns None.
C6_FreshCapacity ==
  (size >= 1 /\ op.name = "alloc" /\ ones >= 1) =>
    \A v \in Variants :
      /\ ones <= size => ret[v] = Some(ones - 1)
      /\ ones = size + 1 => ret[v] = None

\* C6 witness: the allocator has the full capacity and the (size+1)-th
\* alloc(1) has returned.
C6_Witness ==
  /\ size = MAX_LEN /\ op.name = "alloc" /\ ones = size + 1
  /\ \A v \in Variants : ret[v] = None

\* C7: dealloc(begin, n) right after the allocation that returned
\* Some(begin) for n indices restores the bitmaps of before the allocation.
C7_RoundTrip ==
  undo.valid =>
    /\ \A v \in Variants : ret[v] = Unit
    /\ lib_bitmap = undo.lib
    /\ byte_bitmap = undo.byte
    /\ packed_bitmap = undo.packed

\* C7 witness: such a pair on a range that crosses a word boundary, next to
\* indices that stay allocated.
C7_Witness ==
  /\ undo.valid /\ CrossesWord(op.begin, op.n)
  /\ \A v \in Variants : \E i \in 0 .. size - 1 : Occ(Bitmaps, v, i)

\* C8: an allocation that returns Some(begin) turns exactly the indices of
\* [begin, begin+n) from free to allocated and changes no other index (so it
\* never hands out an index that is still allocated).
C8_AllocEffect ==
  IsAllocCall =>
    \A v \in Variants :
      ret[v].kind = "some" =>
        \A i \in 0 .. MAX_LEN - 1 :
          IF ret[v].val <= i /\ i < ret[v].val + op.n
          THEN ~Occ(pre, v, i) /\ Occ(Bitmaps, v, i)
          ELSE Occ(Bitmaps, v, i) = Occ(pre, v, i)

\* C8 witness: a successful allocation across a word boundary while other
\* indices were already allocated.
C8_Witness ==
  /\ IsAllocCall
  /\ \A v \in Variants :
       /\ ret[v].kind = "some" /\ CrossesWord(ret[v].val, op.n)
       /\ \E i \in 0 .. size - 1 : Occ(pre, v, i)

\* the range of the dealloc call lies in [0, size) and was allocated throughout
DeallocOfAllocated(v) ==
  /\ op.name = "dealloc"
  /\ op.begin + op.n <= size
  /\ \A i \in op.begin .. op.begin + op.n - 1 : Occ(pre, v, i)

\* C9: dealloc(begin, n) of an in-bounds, fully allocated range returns and
\* frees exactly [begin, begin+n); every other index keeps its occupancy.
C9_DeallocEffect ==
  \A v \in Variants :
    DeallocOfAllocated(v) =>
      /\ ret[v] = Unit
      /\ \A i \in 0 .. MAX_LEN - 1 :
           IF op.begin <= i /\ i < op.begin + op.n
           THEN ~Occ(Bitmaps, v, i)
           ELSE Occ(Bitmaps, v, i) = Occ(pre, v, i)

\* C9 witness: a dealloc that does not start at a word boundary, crosses
\* one, and leaves allocated indices on both sides of the range.
C9_Witness ==
  /\ op.begin % ELEM_WIDTH # 0 /\ CrossesWord(op.begin, op.n)
  /\ \A v \in Variants :
       /\ DeallocOfAllocated(v)
       /\ Occ(Bitmaps, v, op.begin - 1)
       /\ op.begin + op.n < size /\ Occ(Bitmaps, v, op.begin + op.n)

\* C10 (as stated): in both encodings alloc and alloc_aligned abort and
\* leave the bitmap as it was when n = 0 or n > size, and alloc_aligned also
\* when align is no power of two.
C10_PreconditionsFatal ==
  (IsAllocCall /\ (~ValidLength \/ CallAlign \notin PowersOfTwo)) =>
    /\ \A v \in Traits : ret[v] = Abort
    /\ byte_bitmap = pre.byte
    /\ packed_bitmap = pre.packed

\* the range of the dealloc call, cut to the indices the arrays have
DeallocRange == {i \in op.begin .. op.begin + op.n - 1 : i < MAX_LEN}

\* C11 (as stated): in every variant dealloc(begin, n) aborts when its range
\* is not entirely inside [0, size) or holds an index that is free.
C11_InvalidDeallocFatal ==
  (/\ op.name = "dealloc"
   /\ size >= 1
   /\ op.n >= 1
   /\ \A v \in Variants :
        \/ op.begin + op.n > size
        \/ \E i \in DeallocRange : ~Occ(pre, v, i)) =>
    \A v \in Variants : ret[v] = Abort

\* C12 (as stated): new(size) aborts when size = 0 or size exceeds the
\* capacity, and otherwise returns allocators in which every index is free.
C12_ConstructorPrecondition ==
  op.name = "new" =>
    IF op.n = 0 \/ op.n > MAX_LEN
    THEN \A v \in Variants : ret[v] = Abort
    ELSE /\ \A v \in Variants : ret[v] # Abort
         /\ size = op.n
         /\ \A v \in Variants : \A i \in 0 .. size - 1 : ~Occ(Bitmaps, v, i)

\* C13 (as stated): when the dealloc of lib.rs aborts because an index of its
\* range is free, the flags are those of before the call.
C13_StrictDeallocKeepsState ==
  (/\ op.name = "dealloc"
   /\ ret.lib = Abort
   /\ \E i \in DeallocRange : ~Occ(pre, "lib", i)) =>
    lib_bitmap = pre.lib

\* C14 (as stated): when the free run at index 0 has at least n indices,
\* alloc_aligned(n, align) returns Some(0) for every power of two align, in
\* the three variants (no panic in the round-up).
C14_AlignedAtZero ==
  (/\ op.name = "alloc_aligned"
   /\ ValidLength
   /\ op.align \in PowersOfTwo) =>
    \A v \in Variants : Fits(Free(pre, v), 0, op.n) => ret[v] = Some(0)

\* C18: an alloc or alloc_aligned that returns None leaves every flag and
\* every bit as it was before the call, in the three variants.
C18_FailedAllocKeepsState ==
  IsAllocCall =>
    /\ ret.lib = None => lib_bitmap = pre.lib
    /\ ret.byte = None => byte_bitmap = pre.byte
    /\ ret.packed = None => packed_bitmap = pre.packed

\* C18 witness: a search that went past a free run that was too short, in a
\* bitmap with allocated indices, and returned None in the three variants.
C18_Witness ==
  /\ IsAllocCall /\ ValidLength /\ op.n >= 2
  /\ \A v \in Variants :
       /\ ret[v] = None
       /\ Free(pre, v) # {}
       /\ \E i \in 0 .. size - 1 : Occ(pre, v, i)

\* what alloc_aligned(n, 1) gives from the bitmaps before the call just made
AlignedByOne ==
  [lib    |-> lib_alloc_aligned(pre.lib, size, op.n, 1, overflow_checks),
   byte   |-> byte_alloc_aligned(pre.byte, size, op.n, 1),
   packed |-> packed_alloc_aligned(pre.packed, size, packed_end, op.n, 1)]

\* C19 (as stated): for 0 < n <= size, alloc(n) has the outcome and leaves
\* the bitmap that alloc_aligned(n, 1) has and leaves from the same state.
C19_AlignOneIsAlloc ==
  (op.name = "alloc" /\ ValidLength) =>
    \A v \in Variants :
      /\ AlignedByOne[v].ret = ret[v]
      /\ AlignedByOne[v].bm = Bitmaps[v]

\* C15: in every state, for every cursor begin < end, next_toggle(begin)
\* returns without a panic a cursor r with begin < r <= end; the positions of
\* [begin, r) have the occupancy of begin; r = end or the occupancy at r
\* differs; and every position it reads is before end.
C15_NextToggleStopsAtEnd ==
  \A x \in 0 .. size - 1 :
    \A r \in {next_toggle(packed_bitmap, packed_end, from_int(x))} :
      \A t \in {to_int(r.idx)} :
        /\ r.ok
        /\ r.idx[2] < ELEM_WIDTH
        /\ x < t
        /\ ~idx_lt(packed_end, r.idx)
        /\ t <= size
        /\ \A i \in x .. t - 1 :
             packed_occ(packed_bitmap, i) = packed_occ(packed_bitmap, x)
        /\ t = size \/ packed_occ(packed_bitmap, t) # packed_occ(packed_bitmap, x)
        /\ \A c \in next_toggle_reads(packed_bitmap, packed_end, from_int(x)) :
             idx_lt(c, packed_end)

\* C15 witness: size ends inside the second word, the free run that reaches
\* size is preceded by allocated indices, and the packed alloc of several
\* indices has just scanned it with next_toggle and returned None.
C15_Witness ==
  /\ op.name = "alloc" /\ op.n >= 2 /\ ret.packed = None
  /\ size % ELEM_WIDTH # 0 /\ size > ELEM_WIDTH
  /\ ~packed_occ(packed_bitmap, size - 1)
  /\ packed_occ(packed_bitmap, 0)
  /\ to_int(next_toggle(packed_bitmap, packed_end, from_int(size - 1)).idx) = size

(***************************************************************************)
(* The cursor arithmetic on its own: a cursor made by from_int(x), x in    *)
(* 0 .. ELEM_CNT*ELEM_WIDTH, is kept in packed_end and moved by + and +=;  *)
(* op.n is the integer it stands for, op.begin a second integer y to       *)
(* compare with, op.align the offset last added.                           *)
(***************************************************************************)
CursorInit ==
  /\ pc = "cursor"
  /\ overflow_checks = FALSE
  /\ size = 0
  /\ lib_bitmap = byte_new_bitmap
  /\ byte_bitmap = byte_new_bitmap
  /\ packed_bitmap = packed_new_bitmap
  /\ \E x \in 0 .. ELEM_CNT * ELEM_WIDTH, y \in 0 .. ELEM_CNT * ELEM_WIDTH :
       /\ packed_end = from_int(x)
       /\ op = [NoOp EXCEPT !.name = "from_int", !.n = x, !.begin = y]
  /\ ret = NoRet
  /\ pre = NoPre
  /\ undo = NoUndo
  /\ ones = -1

\* cursor + k (impl Add)
CursorAdd(k) ==
  /\ pc = "cursor"
  /\ op.n + k <= ELEM_CNT * ELEM_WIDTH
  /\ packed_end' = idx_add(packed_end, k)
  /\ op' = [op EXCEPT !.name = "add", !.n = op.n + k, !.align = k]
  /\ UNCHANGED <<pc, overflow_checks, size, lib_bitmap, byte_bitmap,
                 packed_bitmap, ret, pre, undo, ones>>

\* cursor += k (impl AddAssign)
CursorAddAssign(k) ==
  /\ pc = "cursor"
  /\ op.n + k <= ELEM_CNT * ELEM_WIDTH
  /\ packed_end' = idx_add_assign(packed_end, k)
  /\ op' = [op EXCEPT !.name = "add_assign", !.n = op.n + k, !.align = k]
  /\ UNCHANGED <<pc, overflow_checks, size, lib_bitmap, byte_bitmap,
                 packed_bitmap, ret, pre, undo, ones>>

CursorNext ==
  \/ \E k \in 0 .. ELEM_CNT * ELEM_WIDTH : CursorAdd(k)
  \/ \E k \in 0 .. ELEM_CNT * ELEM_WIDTH : CursorAddAssign(k)

CursorSpec == CursorInit /\ [][CursorNext]_vars

\* C17: for x, y in 0 .. ELEM_CNT*ELEM_WIDTH the cursor from_int(x), also
\* after offsets were added to it, has a bit component below ELEM_WIDTH,
\* converts back to its integer, is from_int of that integer, and compares
\* with from_int(y) as the integers compare.
C17_CursorMatchesInteger ==
  pc = "cursor" =>
    /\ packed_end[2] < ELEM_WIDTH
    /\ to_int(packed_end) = op.n
    /\ packed_end = from_int(op.n)
    /\ idx_lt(packed_end, from_int(op.begin)) <=> op.n < op.begin
    /\ idx_lt(from_int(op.begin), packed_end) <=> op.begin < op.n
    /\ packed_end = from_int(op.begin) <=> op.n = op.begin

\* C17 witness: an offset was added that carried into the next word, and the
\* cursor is compared with a larger one whose bit component is smaller.
C17_Witness ==
  /\ pc = "cursor" /\ op.name \in {"add", "add_assign"} /\ op.align >= 1
  /\ (op.n - op.align) \div ELEM_WIDTH < op.n \div ELEM_WIDTH
  /\ op.n < op.begin
  /\ from_int(op.begin)[2] < packed_end[2]

(***************************************************************************)
(* The run-search loops one iteration at a time.  An iteration starts at   *)
(* the scan position begin0 of the loop head and either ends the call      *)
(* (done, with its outcome ret) or hands the next scan position to the     *)
(* loop head.                                                              *)
(***************************************************************************)
IterDone(r) == [done |-> TRUE, ret |-> r, begin |-> 0]
IterNext(b) == [done |-> FALSE, ret |-> None, begin |-> b]

\* alloc_aligned of bytealloc.rs whose `continue` goes back to the position
\* the iteration started from
byte_alloc_aligned_iter_stuck(bm, sz, n, align, begin0) ==
  IF ~(begin0 < sz) THEN IterDone(None)
  ELSE LET begin == byte_round_up(skip_allocated(bm, sz, begin0), align) IN
       IF begin >= sz THEN IterDone(None)
       ELSE IF bm[begin] THEN IterNext(begin0)
       ELSE LET end == scan_free(bm, sz, begin + 1) IN
            IF end - begin >= n THEN IterDone(Some(begin)) ELSE IterNext(end)

\* one iteration of `while begin < self.sz` in alloc (lib.rs, bytealloc.rs)
byte_alloc_iter(bm, sz, n, begin0) ==
  IF ~(begin0 < sz) THEN IterDone(None)
  ELSE LET begin == skip_allocated(bm, sz, begin0) IN
       IF begin >= sz THEN IterDone(None)
       ELSE LET end == scan_free(bm, sz, begin + 1) IN
            IF end - begin >= n THEN IterDone(Some(begin)) ELSE IterNext(end)

\* one iteration of `while begin < self.sz` in alloc_aligned (bytealloc.rs)
byte_alloc_aligned_iter(bm, sz, n, align, begin0) ==
  IF ~(begin0 < sz) THEN IterDone(None)
  ELSE LET begin == byte_round_up(skip_allocated(bm, sz, begin0), align) IN
       IF begin >= sz THEN IterDone(None)
       ELSE IF bm[begin] THEN IterNext(begin)
       ELSE LET end == scan_free(bm, sz, begin + 1) IN
            IF end - begin >= n THEN IterDone(Some(begin)) ELSE IterNext(end)

\* one iteration of `while begin < self.sz` in alloc_aligned (lib.rs)
lib_alloc_aligned_iter(bm, sz, n, align, chk, begin0) ==
  IF ~(begin0 < sz) THEN IterDone(None)
  ELSE LET up == lib_round_up(skip_allocated(bm, sz, begin0), align, chk)
           begin == up.val
       IN
       IF ~up.ok THEN IterDone(Abort)
       ELSE IF begin >= sz THEN IterDone(None)
       ELSE IF bm[begin] THEN IterNext(begin)
       ELSE LET end == scan_free(bm, sz, begin + 1) IN
            IF end - begin >= n THEN IterDone(Some(begin)) ELSE IterNext(end)

\* one iteration of `loop` in alloc (bitalloc.rs); begin is a cursor
packed_alloc_iter(bm, self_end, n, begin) ==
  IF begin = self_end THEN IterDone(None)
  ELSE LET e == next_toggle(bm, self_end, begin) IN
       IF ~e.ok THEN IterDone(Abort)
       ELSE IF idx_sub(e.idx, begin) >= n
       THEN IterDone(IF raw_set_range(bm, begin, idx_add(begin, n), TRUE).ok
                     THEN Some(to_int(begin)) ELSE Abort)
       ELSE LET nb == next_toggle(bm, self_end, e.idx) IN
            IF ~nb.ok THEN IterDone(Abort) ELSE IterNext(nb.idx)

\* one iteration of `loop` in alloc_aligned (bitalloc.rs); begin0 is a cursor
packed_alloc_aligned_iter(bm, self_end, n, alignment, begin0) ==
  IF begin0 = self_end THEN IterDone(None)
  ELSE LET e == next_toggle(bm, self_end, begin0)
           begin == next_aligned(begin0, alignment)
       IN
       IF ~e.ok THEN IterDone(Abort)
       ELSE IF idx_lt(begin, e.idx) /\ idx_sub(e.idx, begin) >= n
       THEN IterDone(IF raw_set_range(bm, begin, idx_add(begin, n), TRUE).ok
                     THEN Some(to_int(begin)) ELSE Abort)
       ELSE LET nb == next_toggle(bm, self_end, e.idx) IN
            IF ~nb.ok THEN IterDone(Abort) ELSE IterNext(nb.idx)

\* the iteration the call just made runs in variant v from scan position p
\* (an index; the packed loops get the cursor of it)
CallIter(v, p) ==
  IF v = "packed"
  THEN LET it == IF op.name = "alloc"
                 THEN packed_alloc_iter(pre.packed, packed_end, op.n, from_int(p))
                 ELSE packed_alloc_aligned_iter(pre.packed, packed_end, op.n,
                                                op.align, from_int(p))
       IN IF it.done THEN it ELSE IterNext(to_int(it.begin))
  ELSE IF op.name = "alloc" THEN byte_alloc_iter(pre[v], size, op.n, p)
  ELSE IF v = "byte"
       THEN byte_alloc_aligned_iter(pre.byte, size, op.n, op.align, p)
       ELSE lib_alloc_aligned_iter(pre.lib, size, op.n, op.align,
                                   overflow_checks, p)

\* the scan position the loop of the call starts from: 0, or first_of(false)
CallStart(v) ==
  IF v = "packed" THEN to_int(first_of(pre.packed, packed_end, FALSE).idx) ELSE 0

\* the scan positions at the loop head, iteration after iteration, for at
\* most fuel iterations, and the outcome if the loop ended within them
RECURSIVE ScanRun(_, _, _)
ScanRun(v, p, fuel) ==
  LET it == CallIter(v, p) IN
  IF it.done THEN [heads |-> <<p>>, ended |-> TRUE, ret |-> it.ret]
  ELSE IF fuel = 0 THEN [heads |-> <<p>>, ended |-> FALSE, ret |-> None]
  ELSE LET rest == ScanRun(v, it.begin, fuel - 1) IN
       [heads |-> <<p>> \o rest.heads, ended |-> rest.ended, ret |-> rest.ret]

\* the call just made ran a run-search loop with valid arguments
RunSearchCall ==
  /\ IsAllocCall /\ ValidLength /\ CallAlign \in PowersOfTwo
  /\ op.name = "alloc" => op.n >= 2

\* C16: a run search with valid arguments ends: from one iteration to the
\* next the scan position strictly increases and stays at most size, so
\* the loop ends within size + 1 iterations, with the outcome of the call.
C16_ScanAdvances ==
  RunSearchCall =>
    \A v \in Variants :
      LET run == ScanRun(v, CallStart(v), size + 1) IN
      /\ run.ended
      /\ run.ret = ret[v]
      /\ \A j \in 1 .. Len(run.heads) : run.heads[j] <= size
      /\ \A j \in 1 .. Len(run.heads) - 1 : run.heads[j] < run.heads[j + 1]

\* C16 witness: an alloc_aligned whose search rounded the position up onto
\* an allocated index, took the `continue` and went on from there.
C16_Witness ==
  /\ RunSearchCall /\ op.name = "alloc_aligned" /\ op.align >= 2
  /\ LET run == ScanRun("byte", 0, size + 1) IN
     /\ Len(run.heads) >= 2
     /\ \E j \in 1 .. Len(run.heads) - 1 :
          LET b == byte_round_up(skip_allocated(pre.byte, size, run.heads[j]),
                                 op.align)
          IN b < size /\ pre.byte[b] /\ run.heads[j + 1] = b
  /\ Len(ScanRun("packed", CallStart("packed"), size + 1).heads) >= 2

====
